---- MODULE Spec2Model ----
(***************************************************************************)
(* The two-player games of simple_bot_everything.py: the Connect4 and      *)
(* TicTacToe views, their button callbacks and the commands that create    *)
(* them.  One game session (one view) is modelled; views share no state.   *)
(* The counting channel, the coin, missions and claim commands and add_xp  *)
(* are modelled after the games, each under a specification of its own.    *)
(*                                                                         *)
(* Indices are those of the source: rows, columns and turn count from 0.   *)
(* A callback runs without interruption up to its first suspending await   *)
(* (asyncio is cooperative); every write of board, turn and game_over in   *)
(* both callbacks precedes that await, which is the final send_message or  *)
(* edit_message.  Connect4View.make_embed is declared async but contains   *)
(* no await, so awaiting it does not suspend.                              *)
(***************************************************************************)
EXTENDS Integers, Sequences, FiniteSets, TLC

VARIABLES
    game,       \* "none" before a command created a view, else "connect4" | "tictactoe"
    players,    \* view.players, indexed 0..1
    board,      \* view.board[row][col], cells 0 (empty), 1, 2
    turn,       \* view.turn
    game_over,  \* view.game_over
    disabled,   \* the buttons whose .disabled is True
    title,      \* title of the embed last rendered for the game message
    notice,     \* what the command sent: "none" | "self" | "game"
    stopped,    \* the view timed out and left the library's view store
    cb,         \* the callbacks in flight, one record per task slot
    accepted,   \* history: the accepted moves, in order, as [turn, user]
    credits,    \* history: the add_coins calls issued by the game engine
    opening,    \* environment: the players follow Script for the first moves
    probe,      \* last check_winner evaluation, [piece, result]
    count_state,        \* count_state: guild -> expected next number
    last_counter_user,  \* last_counter_user: guild -> user who last counted (0: none)
    last_accepted,      \* history: guild -> authors of the last two accepted counts
    economy,            \* table economy: user -> [balance, xp, level]
    missions,           \* table missions: <<user, code>> -> progress
    task,               \* the command and event handlers in flight, one per task slot
    audit               \* history: coins credited by claim, rewards of the rows it deleted

gameVars == <<game, players, board, turn, game_over, disabled, title, notice,
              stopped, cb, accepted, credits, opening, probe>>

botVars == <<count_state, last_counter_user, last_accepted, economy, missions,
             task, audit>>

vars == <<gameVars, botVars>>

view == <<board, turn, game_over>>

(***************************************************************************)
(* Bounds of the exploration.                                              *)
(***************************************************************************)
\* Accepted moves explored from the empty Connect4 board with free clicks.
MaxFree == 7
\* Number of Connect4 columns (from column 3 on) clicked in that free play.
ClickWindow == 3
\* Number of last moves of a full Connect4 game that are explored freely;
\* the moves before them follow Script.
FreeTail == 4
\* Longest run painted on a board handed to check_winner alone.
RunMax == 5

Users == {"A", "B", "C"}
Authors == {"A"}
Opponents == {"A", "B"}
Slots == {1, 2}

(***************************************************************************)
(* A complete Connect4 game (columns clicked, in order) that ends with a   *)
(* full board and no line.                                                 *)
(***************************************************************************)
Script ==
    << 6, 6, 4, 6, 1, 0, 2, 6, 5, 1, 2, 5, 2, 3, 4, 1, 1, 4, 0, 3, 5,
       5, 6, 2, 4, 3, 0, 1, 3, 1, 5, 5, 0, 2, 3, 0, 3, 2, 0, 4, 4, 6 >>

ScriptedMoves == Len(Script) - FreeTail

(***************************************************************************)
(* Connect4View                                                            *)
(***************************************************************************)
Connect4Board == [r \in 0..5 |-> [c \in 0..6 |-> 0]]

\* reversed(self.board): rows 5, 4, .., 0; the first row whose cell is empty
RECURSIVE ScanRows(_, _, _)
ScanRows(b, col, r) ==
    IF r < 0 THEN -1
    ELSE IF b[r][col] = 0 THEN r
    ELSE ScanRows(b, col, r - 1)

\* the Boolean drop_piece returns
drop_piece_ok_ignored(b, col) == TRUE
drop_piece_ok(b, col) == ScanRows(b, col, 5) >= 0

\* the board drop_piece leaves
drop_piece_top(b, col, piece) ==
    LET rows == {r \in 0..5 : b[r][col] = 0} IN
    IF rows = {} THEN b
    ELSE [b EXCEPT ![CHOOSE r \in rows : \A q \in rows : r <= q][col] = piece]

drop_piece(b, col, piece) ==
    LET r == ScanRows(b, col, 5) IN
    IF r < 0 THEN b ELSE [b EXCEPT ![r][col] = piece]

Connect4_check_winner_strict(b, piece) ==
    \E r \in 0..5, c \in 0..6 :
        \/ c + 3 < 7 /\ \A i \in 0..3 : b[r][c + i] = piece
        \/ r + 3 < 6 /\ \A i \in 0..3 : b[r + i][c] = piece
        \/ r + 3 < 6 /\ c + 3 < 7 /\ \A i \in 0..3 : b[r + i][c + i] = piece
        \/ r - 3 > 0 /\ c + 3 < 7 /\ \A i \in 0..3 : b[r - i][c + i] = piece

Connect4_check_winner(b, piece) ==
    \E r \in 0..5, c \in 0..6 :
        \/ c + 3 < 7 /\ \A i \in 0..3 : b[r][c + i] = piece
        \/ r + 3 < 6 /\ \A i \in 0..3 : b[r + i][c] = piece
        \/ r + 3 < 6 /\ c + 3 < 7 /\ \A i \in 0..3 : b[r + i][c + i] = piece
        \/ r - 3 >= 0 /\ c + 3 < 7 /\ \A i \in 0..3 : b[r - i][c + i] = piece

\* all(all(cell != 0 for cell in row) for row in view.board)
board_full(b) == \A r \in DOMAIN b : \A c \in DOMAIN b[r] : b[r][c] # 0

(***************************************************************************)
(* TicTacToeView                                                           *)
(***************************************************************************)
TicTacToeBoard == [r \in 0..2 |-> [c \in 0..2 |-> 0]]

TicTacToe_check_winner_noanti(b, piece) ==
    \/ \E r \in 0..2 : \A c \in 0..2 : b[r][c] = piece
    \/ \E i \in 0..2 : \A r \in 0..2 : b[r][i] = piece
    \/ \A i \in 0..2 : b[i][i] = piece
    \/ \A i \in 0..2 : b[i][i] = piece /\ b[1][1] = piece

TicTacToe_check_winner(b, piece) ==
    \/ \E r \in 0..2 : \A c \in 0..2 : b[r][c] = piece
    \/ \E i \in 0..2 : \A r \in 0..2 : b[r][i] = piece
    \/ \A i \in 0..2 : b[i][i] = piece
    \/ \A i \in 0..2 : b[i][2 - i] = piece

TicTacToeButtons == {<<x, y>> : x \in 0..2, y \in 0..2}

(***************************************************************************)
(* The steps shared by both callbacks.                                     *)
(***************************************************************************)
\* if view.game_over
Ended_never == FALSE
Ended == game_over

\* interaction.user != view.players[view.turn], negated
IsTurn_participant(u) == u \in {players[0], players[1]}
IsTurn(u) == u = players[turn]

\* piece = view.turn + 1
PieceOf_other(t) == 2 - t
PieceOf(t) == t + 1

\* view.turn = 1 - view.turn
FlipTurn_stuck(t) == t
FlipTurn(t) == 1 - t

\* view.board[self.y][self.x] != 0
CellTaken_never(b, x, y) == FALSE
CellTaken(b, x, y) == b[y][x] # 0

\* No await separates the turn check from the writes of the board and of turn.
AwaitBetweenCheckAndWrite_yes == TRUE
AwaitBetweenCheckAndWrite == FALSE

\* What follows the placement: win, then draw, then the turn passes.
Connect4_outcome(b, piece) ==
    IF Connect4_check_winner(b, piece) THEN "wins"
    ELSE IF board_full(b) THEN "draw"
    ELSE "turn"

TicTacToe_outcome_drawfirst(b, piece) ==
    IF board_full(b) THEN "draw"
    ELSE IF TicTacToe_check_winner(b, piece) THEN "wins"
    ELSE "turn"

TicTacToe_outcome(b, piece) ==
    IF TicTacToe_check_winner(b, piece) THEN "wins"
    ELSE IF board_full(b) THEN "draw"
    ELSE "turn"

Idle == [pc |-> "idle", user |-> "-", target |-> <<>>, t |-> -1, res |-> "-"]
Responding(res) ==
    [pc |-> "responding", user |-> "-", target |-> <<>>, t |-> -1, res |-> res]
Checked(u, target, t) ==
    [pc |-> "checked", user |-> u, target |-> target, t |-> t, res |-> "-"]

\* the task slot a new callback takes
FreeSlot == CHOOSE i \in Slots : cb[i].pc = "idle" /\ \A j \in Slots : cb[j].pc = "idle" => i <= j

\* the callback answers with an ephemeral message and writes nothing
Reject(i, res) ==
    /\ cb' = [cb EXCEPT ![i] = Responding(res)]
    /\ UNCHANGED <<board, turn, game_over, disabled, title, accepted>>

\* the writes after a placement that gave board nb and outcome out
Settle(i, u, t, nb, out, pressed, all) ==
    /\ board' = nb
    /\ accepted' = Append(accepted, [turn |-> t, user |-> u])
    /\ game_over' = IF out = "turn" THEN game_over ELSE TRUE
    /\ disabled' = IF out = "turn" THEN disabled \cup pressed ELSE all
    /\ turn' = IF out = "turn" THEN FlipTurn(turn) ELSE turn
    /\ title' = IF out = "wins" THEN [kind |-> "wins", user |-> u]
                ELSE IF out = "draw" THEN [kind |-> "draw", user |-> "-"]
                ELSE title
    /\ cb' = [cb EXCEPT ![i] = Responding(out)]

(***************************************************************************)
(* Connect4Button.callback                                                 *)
(***************************************************************************)
Connect4_place(i, u, col, t) ==
    IF ~drop_piece_ok(board, col)
    THEN Reject(i, "full")
    ELSE LET nb == drop_piece(board, col, PieceOf(t)) IN
         Settle(i, u, t, nb, Connect4_outcome(nb, PieceOf(t)), {}, 0..6)

\* the columns the users click
FreeCols == {c \in 0..6 : 3 <= c /\ c < 3 + ClickWindow}
ClickCols ==
    IF ~opening THEN FreeCols
    ELSE IF Len(accepted) < ScriptedMoves THEN {Script[Len(accepted) + 1]}
    ELSE 0..6

Connect4Button_callback(i, u, col) ==
    /\ game = "connect4"
    /\ ~stopped
    /\ opening \/ Len(accepted) < MaxFree
    /\ \E j \in Slots : cb[j].pc = "idle"
    /\ i = FreeSlot
    /\ IF Ended THEN Reject(i, "ended")
       ELSE IF ~IsTurn(u) THEN Reject(i, "notturn")
       ELSE IF AwaitBetweenCheckAndWrite
            THEN /\ cb' = [cb EXCEPT ![i] = Checked(u, <<col>>, turn)]
                 /\ UNCHANGED <<board, turn, game_over, disabled, title, accepted>>
            ELSE Connect4_place(i, u, col, turn)
    /\ UNCHANGED <<game, players, notice, stopped, credits, opening, probe>>

(***************************************************************************)
(* TicTacToeButton.callback                                                *)
(***************************************************************************)
TicTacToe_place(i, u, x, y, t) ==
    LET nb == [board EXCEPT ![y][x] = PieceOf(t)] IN
    Settle(i, u, t, nb, TicTacToe_outcome(nb, PieceOf(t)), {<<x, y>>}, TicTacToeButtons)

TicTacToeButton_callback(i, u, x, y) ==
    /\ game = "tictactoe"
    /\ ~stopped
    /\ \E j \in Slots : cb[j].pc = "idle"
    /\ i = FreeSlot
    /\ IF Ended THEN Reject(i, "ended")
       ELSE IF ~IsTurn(u) THEN Reject(i, "notturn")
       ELSE IF CellTaken(board, x, y) THEN Reject(i, "taken")
       ELSE IF AwaitBetweenCheckAndWrite
            THEN /\ cb' = [cb EXCEPT ![i] = Checked(u, <<x, y>>, turn)]
                 /\ UNCHANGED <<board, turn, game_over, disabled, title, accepted>>
            ELSE TicTacToe_place(i, u, x, y, turn)
    /\ UNCHANGED <<game, players, notice, stopped, credits, opening, probe>>

(***************************************************************************)
(* A suspended callback resumes: it finishes once its response is sent.    *)
(***************************************************************************)
Resume(i) ==
    /\ cb[i].pc # "idle"
    /\ IF cb[i].pc = "checked"
       THEN IF game = "connect4"
            THEN Connect4_place(i, cb[i].user, cb[i].target[1], cb[i].t)
            ELSE TicTacToe_place(i, cb[i].user, cb[i].target[1], cb[i].target[2], cb[i].t)
       ELSE /\ cb' = [cb EXCEPT ![i] = Idle]
            /\ UNCHANGED <<board, turn, game_over, disabled, title, accepted>>
    /\ UNCHANGED <<game, players, notice, stopped, credits, opening, probe>>

(***************************************************************************)
(* The commands.                                                           *)
(***************************************************************************)
NewView(kind, b, author, opponent, scripted) ==
    /\ game' = kind
    /\ players' = [k \in 0..1 |-> IF k = 0 THEN author ELSE opponent]
    /\ board' = b
    /\ turn' = 0
    /\ game_over' = FALSE
    /\ disabled' = {}
    /\ title' = [kind |-> "game", user |-> "-"]
    /\ notice' = "game"
    /\ opening' = scripted
    /\ UNCHANGED <<stopped, cb, accepted, credits, probe>>

SelfChallenge ==
    /\ notice' = "self"
    /\ UNCHANGED <<game, players, board, turn, game_over, disabled, title,
                   stopped, cb, accepted, credits, opening, probe>>

\* opponent == ctx.author
SameUser_never(author, opponent) == FALSE
SameUser(author, opponent) == opponent = author

connect4(author, opponent, scripted) ==
    /\ game = "none"
    /\ notice = "none"
    /\ IF SameUser(author, opponent) THEN SelfChallenge
       ELSE NewView("connect4", Connect4Board, author, opponent, scripted)

tictactoe(author, opponent) ==
    /\ game = "none"
    /\ notice = "none"
    /\ IF SameUser(author, opponent) THEN SelfChallenge
       ELSE NewView("tictactoe", TicTacToeBoard, author, opponent, FALSE)

(***************************************************************************)
(* The view's timeout (timeout=60, on_timeout not overridden): the library *)
(* stops dispatching the view's buttons; no field of the view is written.  *)
(***************************************************************************)
Timeout_abandons ==
    /\ game # "none"
    /\ ~stopped
    /\ stopped' = TRUE
    /\ game_over' = TRUE
    /\ title' = [kind |-> "abandoned", user |-> "-"]
    /\ disabled' = IF game = "connect4" THEN 0..6 ELSE TicTacToeButtons
    /\ UNCHANGED <<game, players, board, turn, notice, cb, accepted, credits,
                   opening, probe>>

Timeout ==
    /\ game # "none"
    /\ ~stopped
    /\ stopped' = TRUE
    /\ UNCHANGED <<game, players, board, turn, game_over, disabled, title,
                   notice, cb, accepted, credits, opening, probe>>

(***************************************************************************)
(* The state outside the games: the two dictionaries of the counting       *)
(* channel, the tables economy and missions of economy.db, and the         *)
(* handlers in flight.  A dictionary or table is a function whose domain   *)
(* is the set of its keys.                                                 *)
(***************************************************************************)
Empty == <<>>

\* d.get(k, default)
Get(d, k, default) == IF k \in DOMAIN d THEN d[k] ELSE default

\* d[k] = v
Put(d, k, v) == [x \in DOMAIN d \cup {k} |-> IF x = k THEN v ELSE d[x]]

\* del d[k]
Del(d, k) == [x \in DOMAIN d \ {k} |-> d[x]]

IdleTask == [pc |-> "idle"]

\* the task slot a new handler takes
FreeTask == CHOOSE i \in Slots : task[i].pc = "idle" /\ \A j \in Slots : task[j].pc = "idle" => i <= j

BotAtStart ==
    /\ count_state = Empty
    /\ last_counter_user = Empty
    /\ last_accepted = Empty
    /\ economy = Empty
    /\ missions = Empty
    /\ task = [i \in Slots |-> IdleTask]
    /\ audit = [paid |-> 0, removed |-> 0]

Init ==
    /\ game = "none"
    /\ players = [k \in 0..1 |-> "-"]
    /\ board = <<>>
    /\ turn = 0
    /\ game_over = FALSE
    /\ disabled = {}
    /\ title = [kind |-> "none", user |-> "-"]
    /\ notice = "none"
    /\ stopped = FALSE
    /\ cb = [i \in Slots |-> Idle]
    /\ accepted = <<>>
    /\ credits = <<>>
    /\ opening = FALSE
    /\ probe = [piece |-> 0, result |-> FALSE]
    /\ BotAtStart

Next ==
    \/ UNCHANGED botVars /\ \E a \in Authors, o \in Opponents, s \in BOOLEAN : connect4(a, o, s)
    \/ UNCHANGED botVars /\ \E a \in Authors, o \in Opponents : tictactoe(a, o)
    \/ UNCHANGED botVars /\ \E i \in Slots, u \in Users, col \in ClickCols :
                                Connect4Button_callback(i, u, col)
    \/ UNCHANGED botVars /\ \E i \in Slots, u \in Users, x \in 0..2, y \in 0..2 :
                                TicTacToeButton_callback(i, u, x, y)
    \/ UNCHANGED botVars /\ \E i \in Slots : Resume(i)
    \/ UNCHANGED botVars /\ Timeout

Spec == Init /\ [][Next]_vars

(***************************************************************************)
(* check_winner on its own: the boards are drawn from bounded sets and     *)
(* the function is applied to them.                                        *)
(***************************************************************************)
Dirs == {<<0, 1>>, <<1, 0>>, <<1, 1>>, <<-1, 1>>}

InBoard(r, c) == r \in 0..5 /\ c \in 0..6

\* the cells of the board among the first n cells from (r0, c0) in direction d
Run(r0, c0, d, n) ==
    {cell \in {<<r0 + k * d[1], c0 + k * d[2]>> : k \in 0..(n - 1)} : InBoard(cell[1], cell[2])}

\* background bg, the run in piece p, and one cell (the hole) set to q
Painted(bg, cells, p, hole, q) ==
    [r \in 0..5 |-> [c \in 0..6 |->
        IF <<r, c>> = hole THEN q ELSE IF <<r, c>> \in cells THEN p ELSE bg]]

Connect4Boards ==
    UNION {
        {Painted(bg, Run(r0, c0, d, n), p, hole, q) :
            hole \in Run(r0, c0, d, n) \cup {<<-1, -1>>}, q \in {0, 3 - p}, bg \in {0, 3 - p}} :
        r0 \in 0..5, c0 \in 0..6, d \in Dirs, n \in 3..RunMax, p \in 1..2}

TicTacToeBoards == [0..2 -> [0..2 -> 0..2]]

InitBoards ==
    /\ game \in {"connect4", "tictactoe"}
    /\ board \in IF game = "connect4" THEN Connect4Boards ELSE TicTacToeBoards
    /\ players = [k \in 0..1 |-> IF k = 0 THEN "A" ELSE "B"]
    /\ turn = 0
    /\ game_over = FALSE
    /\ disabled = {}
    /\ title = [kind |-> "game", user |-> "-"]
    /\ notice = "game"
    /\ stopped = FALSE
    /\ cb = [i \in Slots |-> Idle]
    /\ accepted = <<>>
    /\ credits = <<>>
    /\ opening = FALSE
    /\ probe = [piece |-> 0, result |-> FALSE]
    /\ BotAtStart

Probe(piece) ==
    /\ probe' = [piece |-> piece,
                 result |-> IF game = "connect4"
                            THEN Connect4_check_winner(board, piece)
                            ELSE TicTacToe_check_winner(board, piece)]
    /\ UNCHANGED <<game, players, board, turn, game_over, disabled, title, notice,
                   stopped, cb, accepted, credits, opening>>
    /\ UNCHANGED botVars

NextBoards == \E piece \in 1..2 : Probe(piece)

SpecBoards == InitBoards /\ [][NextBoards]_vars

(***************************************************************************)
(* The counting channel: init_counting and the counting branch of          *)
(* on_message.  The branch has no await between reading count_state and    *)
(* writing it; its only awaits are the trailing message.delete and         *)
(* message.add_reaction, so the handlers of the channel run one after the  *)
(* other.  on_ready, which calls init_counting for every guild, may fire   *)
(* again after a reconnect.                                                *)
(***************************************************************************)
\* Greatest number typed into the counting channel.
MaxCount == 3

Guilds == {1, 2}
\* message.author.id of the users who write; 0 is the value for "nobody"
AuthorIds == {1, 2}
Nobody == 0

DigitChars == <<"0", "1", "2", "3", "4", "5", "6", "7", "8", "9">>

\* str(n), n >= 0
RECURSIVE str(_)
str(n) ==
    IF n < 10 THEN <<DigitChars[n + 1]>>
    ELSE Append(str(n \div 10), DigitChars[(n % 10) + 1])

Whitespace == {" "}

RECURSIVE lstrip(_)
lstrip(s) == IF s # <<>> /\ Head(s) \in Whitespace THEN lstrip(Tail(s)) ELSE s

RECURSIVE rstrip(_)
rstrip(s) ==
    IF s # <<>> /\ s[Len(s)] \in Whitespace THEN rstrip(SubSeq(s, 1, Len(s) - 1)) ELSE s

\* message.content.strip()
strip(s) == rstrip(lstrip(s))

IsDigit(ch) == \E d \in DOMAIN DigitChars : DigitChars[d] = ch

DigitValue(ch) == (CHOOSE d \in DOMAIN DigitChars : DigitChars[d] = ch) - 1

RECURSIVE Decimal(_)
Decimal(s) ==
    IF s = <<>> THEN 0
    ELSE 10 * Decimal(SubSeq(s, 1, Len(s) - 1)) + DigitValue(s[Len(s)])

\* the text after an optional sign
Unsigned(s) == IF s # <<>> /\ Head(s) \in {"+", "-"} THEN Tail(s) ELSE s

\* int(text) raises ValueError
int_raises(text) ==
    LET u == Unsigned(strip(text)) IN
    u = <<>> \/ \E k \in 1..Len(u) : ~IsDigit(u[k])

\* int(text) where it does not raise
int_value(text) ==
    LET t == strip(text) IN
    IF Head(t) = "-" THEN 0 - Decimal(Unsigned(t)) ELSE Decimal(Unsigned(t))

Numerals == {str(n) : n \in 0..MaxCount}

\* the message contents written into the channel
Contents ==
    Numerals
    \cup {<<" ">> \o d : d \in Numerals} \cup {d \o <<" ">> : d \in Numerals}
    \cup {<<"-">> \o d : d \in Numerals} \cup {<<"+">> \o d : d \in Numerals}
    \cup {d \o <<"x">> : d \in Numerals} \cup {<<"-", " ">> \o d : d \in Numerals}
    \cup {<<>>, <<" ">>, <<"x">>, <<"-">>}

init_counting(guild) ==
    /\ \A j \in Slots : task[j].pc = "idle"
    /\ count_state' = Put(count_state, guild, Get(count_state, guild, 1))
    /\ last_counter_user' = Put(last_counter_user, guild, Nobody)
    /\ UNCHANGED <<last_accepted, economy, missions, task, audit>>
    /\ UNCHANGED gameVars

\* the author of the last accepted count of the guild
LastAccepted(guild_id) == Get(last_accepted, guild_id, [prev |-> Nobody, last |-> Nobody]).last

\* last_counter_user.get(guild_id, 0) == message.author.id
SameCounter_never(guild_id, author) == FALSE
SameCounter(guild_id, author) == Get(last_counter_user, guild_id, Nobody) = author

\* the handler suspended at its trailing await, with its locals
Reacting(guild_id, author, expected, ok, num, reaction) ==
    [pc |-> "reacting", guild_id |-> guild_id, author |-> author,
     expected |-> expected, ok |-> ok, num |-> num, reaction |-> reaction]

on_message(i, guild_id, author, content) ==
    /\ \A j \in Slots : task[j].pc = "idle"
    /\ i = FreeTask
    /\ LET expected == Get(count_state, guild_id, 1) IN
       IF int_raises(content)
       THEN /\ task' = [task EXCEPT ![i] =
                            Reacting(guild_id, author, expected, FALSE, 0, "delete")]
            /\ UNCHANGED <<count_state, last_counter_user, last_accepted>>
       ELSE LET num == int_value(content) IN
            IF SameCounter(guild_id, author) \/ num # expected
            THEN /\ count_state' = Put(count_state, guild_id, 1)
                 /\ last_counter_user' = Put(last_counter_user, guild_id, Nobody)
                 /\ task' = [task EXCEPT ![i] =
                                 Reacting(guild_id, author, expected, TRUE, num, "cross")]
                 /\ UNCHANGED last_accepted
            ELSE /\ count_state' = Put(count_state, guild_id, expected + 1)
                 /\ last_counter_user' = Put(last_counter_user, guild_id, author)
                 /\ last_accepted' = Put(last_accepted, guild_id,
                                          [prev |-> LastAccepted(guild_id), last |-> author])
                 /\ task' = [task EXCEPT ![i] =
                                 Reacting(guild_id, author, expected, TRUE, num, "check")]
    /\ UNCHANGED <<economy, missions, audit>>
    /\ UNCHANGED gameVars

\* the reaction or the deletion is acknowledged and the handler returns
on_message_return(i) ==
    /\ task[i].pc = "reacting"
    /\ task' = [task EXCEPT ![i] = IdleTask]
    /\ UNCHANGED <<count_state, last_counter_user, last_accepted, economy, missions, audit>>
    /\ UNCHANGED gameVars

NextCounting ==
    \/ \E g \in Guilds : init_counting(g)
    \/ \E i \in Slots, g \in Guilds, a \in AuthorIds, c \in Contents : on_message(i, g, a, c)
    \/ \E i \in Slots : on_message_return(i)

SpecCounting == Init /\ [][NextCounting]_vars

(***************************************************************************)
(* economy.db.  Every helper opens a connection of its own and commits     *)
(* before it returns, and every await db.execute is a suspension point: a  *)
(* step of a handler is what it runs between two of them.  One user is     *)
(* modelled; every command and message below is the user's.                *)
(***************************************************************************)
\* Commands that add coins start only while the balance is below MaxCoins.
MaxCoins == 100

UserId == 1

\* VALUES (?, 0, 0, 1, 0, NULL)
NewRow == [balance |-> 0, xp |-> 0, level |-> 1]

econ_upsert(e, user_id) == IF user_id \in DOMAIN e THEN e ELSE Put(e, user_id, NewRow)

\* the table after add_coins: balance = balance + amount
add_coins(e, user_id, amount) ==
    [econ_upsert(e, user_id) EXCEPT ![user_id].balance = @ + amount]

get_balance(e, user_id) == econ_upsert(e, user_id)[user_id].balance

\* code -> (goal, reward)
MISSION_POOL ==
    [code \in {"send_20", "work_5", "coin_3", "invite_1"} |->
        CASE code = "send_20"  -> [goal |-> 20, reward |-> 150]
          [] code = "work_5"   -> [goal |-> 5, reward |-> 120]
          [] code = "coin_3"   -> [goal |-> 3, reward |-> 200]
          [] code = "invite_1" -> [goal |-> 1, reward |-> 250]]

Min(a, b) == IF a < b THEN a ELSE b
Max(a, b) == IF a > b THEN a ELSE b

\* the table after mission_progress: progress = MIN(goal, progress + amt)
mission_progress(m, user_id, code, amt) ==
    IF <<user_id, code>> \in DOMAIN m
    THEN [m EXCEPT ![<<user_id, code>>].progress = Min(m[<<user_id, code>>].goal, @ + amt)]
    ELSE m

\* a handler that has only its final ctx.send left
Sending == [pc |-> "send"]

\* a handler suspended before its mission_progress call
Progressing(code) == [pc |-> "progress", code |-> code]

Starts(i) == task[i].pc = "idle" /\ i = FreeTask

(***************************************************************************)
(* $work and $coin.                                                        *)
(***************************************************************************)
\* random.randint(50, 120): the two ends
Rewards == {50, 120}

\* the arguments typed after $coin: nothing, a choice, or a choice and an amount
CoinArgs ==
    {<<>>, <<"heads">>, <<"edge", 50>>}
    \cup {<<c, a>> : c \in {"heads", "TAILS"}, a \in {-5, 50, 120}}

\* choice.lower()
lower(choice) ==
    CASE choice = "TAILS" -> "tails"
      [] choice = "HEADS" -> "heads"
      [] OTHER -> choice

work(i, reward) ==
    /\ Starts(i)
    /\ get_balance(economy, UserId) < MaxCoins
    /\ economy' = add_coins(economy, UserId, reward)
    /\ task' = [task EXCEPT ![i] = Progressing("work_5")]
    /\ UNCHANGED <<count_state, last_counter_user, last_accepted, missions, audit>>
    /\ UNCHANGED gameVars

\* the handler suspended between its balance check and its add_coins call
Settling(amt, won) == [pc |-> "settle", amt |-> amt, won |-> won]

\* bal < amt
Poor(bal, amt) == bal < amt

\* from the start of the command to the await of add_coins
coin(i, args, result) ==
    /\ Starts(i)
    /\ get_balance(economy, UserId) < MaxCoins
    /\ IF Len(args) < 2 \/ lower(args[1]) \notin {"heads", "tails"}
       THEN task' = [task EXCEPT ![i] = Sending] /\ UNCHANGED economy
       ELSE LET amt == Max(1, args[2])
                bal == get_balance(economy, UserId) IN
            /\ economy' = econ_upsert(economy, UserId)
            /\ task' = [task EXCEPT ![i] =
                            IF Poor(bal, amt) THEN Sending
                            ELSE Settling(amt, result = lower(args[1]))]
    /\ UNCHANGED <<count_state, last_counter_user, last_accepted, missions, audit>>
    /\ UNCHANGED gameVars

\* add_coins(ctx.author.id, amt) or add_coins(ctx.author.id, -amt)
coin_settle(i) ==
    /\ task[i].pc = "settle"
    /\ economy' = add_coins(economy, UserId,
                            IF task[i].won THEN task[i].amt ELSE 0 - task[i].amt)
    /\ task' = [task EXCEPT ![i] = IF task[i].won THEN Progressing("coin_3") ELSE Sending]
    /\ UNCHANGED <<count_state, last_counter_user, last_accepted, missions, audit>>
    /\ UNCHANGED gameVars

\* mission_progress(ctx.author.id, code, 1)
progress(i) ==
    /\ task[i].pc = "progress"
    /\ missions' = mission_progress(missions, UserId, task[i].code, 1)
    /\ task' = [task EXCEPT ![i] = Sending]
    /\ UNCHANGED <<count_state, last_counter_user, last_accepted, economy, audit>>
    /\ UNCHANGED gameVars

\* ctx.send is acknowledged and the handler returns
send(i) ==
    /\ task[i].pc = "send"
    /\ task' = [task EXCEPT ![i] = IdleTask]
    /\ UNCHANGED <<count_state, last_counter_user, last_accepted, economy, missions, audit>>
    /\ UNCHANGED gameVars

NextCoin ==
    \/ \E i \in Slots, reward \in Rewards : work(i, reward)
    \/ \E i \in Slots, args \in CoinArgs, result \in {"heads", "tails"} : coin(i, args, result)
    \/ \E i \in Slots : coin_settle(i)
    \/ \E i \in Slots : progress(i)
    \/ \E i \in Slots : send(i)

SpecCoin == Init /\ [][NextCoin]_vars

(***************************************************************************)
(* $missions and $claim.  ensure_mission keeps one connection from its     *)
(* COUNT to its commit: the rows it has inserted are invisible to the      *)
(* other connections until the commit, and from its first INSERT to the    *)
(* commit it holds the write lock of the database file, on which the       *)
(* writes of the other connections wait.                                   *)
(***************************************************************************)
Codes == DOMAIN MISSION_POOL

\* the keys of the user's rows
MissionsOf(m, user_id) == {k \in DOMAIN m : k[1] = user_id}

\* VALUES (?, ?, 0, ?, ?)
NewMission(code) ==
    [progress |-> 0, goal |-> MISSION_POOL[code].goal, reward |-> MISSION_POOL[code].reward]

\* another connection is between an INSERT and its commit
WriteLocked(i) ==
    \E j \in Slots \ {i} :
        task[j].pc \in {"select", "insert", "commit"} /\ task[j].pending # {}

\* ensure_mission after its COUNT: need = max(0, 2 - count)
Ensuring(count) ==
    LET need == Max(0, 2 - count) IN
    [pc |-> IF need > 0 THEN "select" ELSE "commit",
     need |-> need, tried |-> {}, pending |-> {}, code |-> "-"]

missions_cmd(i) ==
    /\ Starts(i)
    /\ task' = [task EXCEPT ![i] = Ensuring(Cardinality(MissionsOf(missions, UserId)))]
    /\ UNCHANGED <<count_state, last_counter_user, last_accepted, economy, missions, audit>>
    /\ UNCHANGED gameVars

\* the next code of the shuffled keys and its SELECT 1
ensure_select(i) ==
    /\ task[i].pc = "select"
    /\ \E code \in Codes \ task[i].tried :
          LET tried == task[i].tried \cup {code} IN
          IF <<UserId, code>> \in DOMAIN missions \/ code \in task[i].pending
          THEN task' = [task EXCEPT ![i] =
                            [@ EXCEPT !.tried = tried,
                                      !.pc = IF tried = Codes THEN "commit" ELSE "select"]]
          ELSE task' = [task EXCEPT ![i] =
                            [@ EXCEPT !.tried = tried, !.pc = "insert", !.code = code]]
    /\ UNCHANGED <<count_state, last_counter_user, last_accepted, economy, missions, audit>>
    /\ UNCHANGED gameVars

\* the INSERT; on a row another connection committed since the SELECT 1 it
\* raises IntegrityError, which ends the handler
ensure_insert(i) ==
    /\ task[i].pc = "insert"
    /\ ~WriteLocked(i)
    /\ IF <<UserId, task[i].code>> \in DOMAIN missions
       THEN task' = [task EXCEPT ![i] = IdleTask]
       ELSE LET need == task[i].need - 1 IN
            task' = [task EXCEPT ![i] =
                         [@ EXCEPT !.need = need,
                                   !.pending = @ \cup {task[i].code},
                                   !.code = "-",
                                   !.pc = IF need = 0 \/ task[i].tried = Codes
                                          THEN "commit" ELSE "select"]]
    /\ UNCHANGED <<count_state, last_counter_user, last_accepted, economy, missions, audit>>
    /\ UNCHANGED gameVars

\* db.commit(); what follows in $missions and $claim only reads and sends
ensure_commit(i) ==
    /\ task[i].pc = "commit"
    /\ missions' = [k \in DOMAIN missions \cup {<<UserId, c>> : c \in task[i].pending} |->
                        IF k \in DOMAIN missions THEN missions[k] ELSE NewMission(k[2])]
    /\ task' = [task EXCEPT ![i] = Sending]
    /\ UNCHANGED <<count_state, last_counter_user, last_accepted, economy, audit>>
    /\ UNCHANGED gameVars

\* the (code, reward) pairs with progress >= goal
mission_claimable(m, user_id) ==
    {<<k[2], m[k].reward>> : k \in {q \in MissionsOf(m, user_id) : m[q].progress >= m[q].goal}}

\* the table after mission_remove
mission_remove(m, user_id, code) ==
    IF <<user_id, code>> \in DOMAIN m THEN Del(m, <<user_id, code>>) ELSE m

claim(i) ==
    /\ Starts(i)
    /\ get_balance(economy, UserId) < MaxCoins
    /\ LET ready == mission_claimable(missions, UserId) IN
       task' = [task EXCEPT ![i] =
                    IF ready = {} THEN Sending ELSE [pc |-> "pay", ready |-> ready]]
    /\ UNCHANGED <<count_state, last_counter_user, last_accepted, economy, missions, audit>>
    /\ UNCHANGED gameVars

\* add_coins(ctx.author.id, reward) for the next pair of ready
claim_pay(i) ==
    /\ task[i].pc = "pay"
    /\ ~WriteLocked(i)
    /\ \E item \in task[i].ready :
          /\ economy' = add_coins(economy, UserId, item[2])
          /\ audit' = [audit EXCEPT !.paid = @ + item[2]]
          /\ task' = [task EXCEPT ![i] =
                          [pc |-> "remove", ready |-> task[i].ready, item |-> item]]
    /\ UNCHANGED <<count_state, last_counter_user, last_accepted, missions>>
    /\ UNCHANGED gameVars

\* mission_remove(ctx.author.id, code) for the pair just paid
claim_remove(i) ==
    /\ task[i].pc = "remove"
    /\ ~WriteLocked(i)
    /\ LET code == task[i].item[1]
           rest == task[i].ready \ {task[i].item} IN
       /\ missions' = mission_remove(missions, UserId, code)
       /\ audit' = IF <<UserId, code>> \in DOMAIN missions
                   THEN [audit EXCEPT !.removed = @ + missions[<<UserId, code>>].reward]
                   ELSE audit
       /\ task' = [task EXCEPT ![i] =
                       IF rest = {} THEN [pc |-> "ensure"] ELSE [pc |-> "pay", ready |-> rest]]
    /\ UNCHANGED <<count_state, last_counter_user, last_accepted, economy>>
    /\ UNCHANGED gameVars

\* the ensure_mission call of $claim: its COUNT
ensure_mission(i) ==
    /\ task[i].pc = "ensure"
    /\ task' = [task EXCEPT ![i] = Ensuring(Cardinality(MissionsOf(missions, UserId)))]
    /\ UNCHANGED <<count_state, last_counter_user, last_accepted, economy, missions, audit>>
    /\ UNCHANGED gameVars

\* a $work, a $daily or a won $coin of the user reaches its mission_progress call
mission_progress_call(code) ==
    /\ ~WriteLocked(0)
    /\ missions' = mission_progress(missions, UserId, code, 1)
    /\ UNCHANGED <<count_state, last_counter_user, last_accepted, economy, task, audit>>
    /\ UNCHANGED gameVars

NextMissions ==
    \/ \E i \in Slots : missions_cmd(i)
    \/ \E i \in Slots : ensure_select(i)
    \/ \E i \in Slots : ensure_insert(i)
    \/ \E i \in Slots : ensure_commit(i)
    \/ \E i \in Slots : claim(i)
    \/ \E i \in Slots : claim_pay(i)
    \/ \E i \in Slots : claim_remove(i)
    \/ \E i \in Slots : ensure_mission(i)
    \/ \E i \in Slots : send(i)
    \/ \E code \in {"work_5", "coin_3"} : mission_progress_call(code)

SpecMissions == Init /\ [][NextMissions]_vars

(***************************************************************************)
(* add_xp, called by on_message for every message of the user.  Its SELECT *)
(* and its UPDATE are two awaited statements: the row read is released     *)
(* when fetchone has returned it, and the handler is suspended with xp and *)
(* level in its locals until the UPDATE runs.                              *)
(***************************************************************************)
\* add_xp starts only while the stored level is at most MaxLevel.
MaxLevel == 1

\* add_xp(message.author.id, 5)
XpPerMessage == 5

\* the handler suspended before its UPDATE, with the values it will write
Updating(xp, level) == [pc |-> "update", xp |-> xp, level |-> level]

\* econ_upsert, the SELECT and the curve
add_xp(i, amount) ==
    /\ Starts(i)
    /\ econ_upsert(economy, UserId)[UserId].level <= MaxLevel
    /\ economy' = econ_upsert(economy, UserId)
    /\ LET row == economy'[UserId]
           xp == row.xp + amount IN
       task' = [task EXCEPT ![i] =
                    IF xp >= row.level * 100 THEN Updating(0, row.level + 1)
                    ELSE Updating(xp, row.level)]
    /\ UNCHANGED <<count_state, last_counter_user, last_accepted, missions, audit>>
    /\ UNCHANGED gameVars

\* UPDATE economy SET xp=?, level=? and the commit
add_xp_update(i) ==
    /\ task[i].pc = "update"
    /\ economy' = [economy EXCEPT ![UserId].xp = task[i].xp, ![UserId].level = task[i].level]
    /\ task' = [task EXCEPT ![i] = IdleTask]
    /\ UNCHANGED <<count_state, last_counter_user, last_accepted, missions, audit>>
    /\ UNCHANGED gameVars

NextXp ==
    \/ \E i \in Slots : add_xp(i, XpPerMessage)
    \/ \E i \in Slots : add_xp_update(i)

SpecXp == Init /\ [][NextXp]_vars

(***************************************************************************)
(* Vocabulary of the properties, stated on the board itself.               *)
(***************************************************************************)
Cells(b) == UNION {{<<r, c>> : c \in DOMAIN b[r]} : r \in DOMAIN b}

CellsWith(b, v) == {rc \in Cells(b) : b[rc[1]][rc[2]] = v}

\* four cells in a row, a column or a diagonal, all inside the 6x7 board
Connect4Lines ==
    {L \in {{<<r0 + k * d[1], c0 + k * d[2]>> : k \in 0..3} :
                r0 \in 0..5, c0 \in 0..6, d \in Dirs} :
        \A rc \in L : InBoard(rc[1], rc[2])}

Line4(b, piece) ==
    \E L \in Connect4Lines : \A rc \in L : b[rc[1]][rc[2]] = piece

TicTacToeLines ==
    {{<<r, c>> : c \in 0..2} : r \in 0..2} \cup
    {{<<r, c>> : r \in 0..2} : c \in 0..2} \cup
    {{<<0, 0>>, <<1, 1>>, <<2, 2>>}, {<<0, 2>>, <<1, 1>>, <<2, 0>>}}

Line3(b, piece) ==
    \E L \in TicTacToeLines : \A rc \in L : b[rc[1]][rc[2]] = piece

Line(b, piece) == IF game = "connect4" THEN Line4(b, piece) ELSE Line3(b, piece)

ColumnFull(b, col) == \A r \in 0..5 : b[r][col] # 0

Last == accepted[Len(accepted)]

\* user u's click is handled by the callback taking slot i
ClickBy(i, u) ==
    /\ cb[i].pc = "idle"
    /\ cb'[i].pc # "idle"
    /\ \/ \E col \in ClickCols : Connect4Button_callback(i, u, col)
       \/ \E x \in 0..2, y \in 0..2 : TicTacToeButton_callback(i, u, x, y)

(***************************************************************************)
(* C1: while the game is in progress, a click by any user other than       *)
(* players[turn] is answered "Not your turn!" and leaves board, turn and   *)
(* game_over as they were; a board cell changes only by a click of         *)
(* players[turn].                                                          *)
(***************************************************************************)
C1_OutOfTurnRejected ==
    [][game # "none" =>
        /\ \A i \in Slots, u \in Users :
              (~game_over /\ u # players[turn] /\ ClickBy(i, u))
                  => (cb'[i].res = "notturn" /\ UNCHANGED view)
        /\ board' # board =>
              /\ \E i \in Slots : ClickBy(i, players[turn])
              /\ \A i \in Slots, u \in Users : ClickBy(i, u) => u = players[turn]
      ]_vars

C1_Witness ==
    /\ game # "none" /\ ~game_over /\ Len(accepted) >= 1
    /\ cb[1].res = "turn" /\ cb[2].res = "notturn"

(***************************************************************************)
(* C2: turn starts at 0, passes to the other player with every accepted    *)
(* move that does not end the game and changes in no other way, so the     *)
(* accepted moves are made by the two players alternately.                 *)
(***************************************************************************)
C2_TurnAlternates ==
    game # "none" =>
        /\ game_over => Len(accepted) >= 1
        /\ turn = IF game_over THEN (Len(accepted) - 1) % 2 ELSE Len(accepted) % 2
        /\ \A k \in 1..Len(accepted) :
              /\ accepted[k].turn = (k - 1) % 2
              /\ accepted[k].user = players[(k - 1) % 2]
        /\ \A k \in 1..(Len(accepted) - 1) : accepted[k].user # accepted[k + 1].user

C2_Witness ==
    /\ Len(accepted) >= 3 /\ ~game_over /\ stopped
    /\ \E i \in Slots : cb[i].res = "notturn"

(***************************************************************************)
(* C3: with two callbacks of one session in flight, every accepted move    *)
(* writes a cell of its own (no lost update) and no two consecutive        *)
(* accepted moves were made under the same value of turn (no doubled       *)
(* turn).                                                                  *)
(***************************************************************************)
C3_NoLostUpdateNoDoubledTurn ==
    game # "none" =>
        /\ Cardinality(Cells(board) \ CellsWith(board, 0)) = Len(accepted)
        /\ \A v \in 1..2 :
              Cardinality(CellsWith(board, v)) =
                  Cardinality({k \in 1..Len(accepted) : accepted[k].turn = v - 1})
        /\ \A k \in 1..(Len(accepted) - 1) : accepted[k].turn # accepted[k + 1].turn

C3_Witness ==
    /\ cb[1].pc = "responding" /\ cb[1].res = "turn"
    /\ cb[2].pc = "responding" /\ cb[2].res = "turn"

(***************************************************************************)
(* C4: a win is followed by exactly one add_coins call, for the winner; a  *)
(* draw or a timeout by none.                                              *)
(***************************************************************************)
C4_OneCreditPerWin ==
    /\ title.kind = "wins" => credits = <<title.user>>
    /\ title.kind # "wins" => credits = <<>>

(***************************************************************************)
(* C5: once game_over holds, every click is answered that the game has     *)
(* ended, and board, turn and game_over stay as they are.                  *)
(***************************************************************************)
C5_NoMoveAfterEnd ==
    [][(game # "none" /\ game_over) =>
        /\ UNCHANGED view
        /\ \A i \in Slots, u \in Users : ClickBy(i, u) => cb'[i].res = "ended"
      ]_vars

C5_Witness ==
    /\ game_over
    /\ cb[1].res \in {"wins", "draw"} /\ cb[2].res = "ended"

(***************************************************************************)
(* C6: a click of players[turn] on a full Connect4 column or on a taken    *)
(* TicTacToe cell is rejected and leaves board, turn and game_over as they *)
(* were, so that the same click is rejected in the same way again.         *)
(***************************************************************************)
C6_IllegalMoveRejected ==
    [][\A i \in Slots :
        /\ \A col \in 0..6 :
              (game = "connect4" /\ ~game_over /\ ColumnFull(board, col)
                 /\ Connect4Button_callback(i, players[turn], col))
              => (cb'[i].res = "full" /\ UNCHANGED view)
        /\ \A x \in 0..2, y \in 0..2 :
              (game = "tictactoe" /\ ~game_over /\ board[y][x] # 0
                 /\ TicTacToeButton_callback(i, players[turn], x, y))
              => (cb'[i].res = "taken" /\ UNCHANGED view)
      ]_vars

C6_Witness ==
    /\ game = "connect4" /\ ~game_over
    /\ cb[1].res = "full" /\ cb[2].res = "full"

(***************************************************************************)
(* C7: Connect4View.check_winner(piece) is true exactly when four cells in *)
(* a row, a column, a down-right or an up-right diagonal, all inside the   *)
(* board, hold piece.                                                      *)
(***************************************************************************)
C7_Connect4WinnerIffLine ==
    (game = "connect4" /\ probe.piece # 0) => (probe.result = Line4(board, probe.piece))

C7_Witness ==
    /\ game = "connect4" /\ probe.piece = 1 /\ probe.result
    /\ \A k \in 0..3 : board[3 - k][3 + k] = 1
    /\ CellsWith(board, 1) = {<<3 - k, 3 + k>> : k \in 0..3}

(***************************************************************************)
(* C8: TicTacToeView.check_winner(piece) is true exactly when a row, a     *)
(* column, the main diagonal or the anti-diagonal holds piece three times. *)
(***************************************************************************)
C8_TicTacToeWinnerIffLine ==
    (game = "tictactoe" /\ probe.piece # 0) => (probe.result = Line3(board, probe.piece))

C8_Witness ==
    /\ game = "tictactoe" /\ probe.piece = 2 /\ probe.result
    /\ CellsWith(board, 2) = {<<0, 2>>, <<1, 1>>, <<2, 0>>}

(***************************************************************************)
(* C9: the game is drawn exactly when an accepted move filled the last     *)
(* empty cell without completing a line of the mover; a move that fills    *)
(* the last cell and completes a line is a win of the mover.               *)
(***************************************************************************)
C9_DrawIffFullNoLine ==
    game # "none" =>
        /\ title.kind = "draw" =>
              /\ game_over /\ Len(accepted) >= 1
              /\ CellsWith(board, 0) = {}
              /\ ~Line(board, Last.turn + 1)
        /\ (CellsWith(board, 0) = {} /\ Line(board, Last.turn + 1)) =>
              title = [kind |-> "wins", user |-> Last.user]
        /\ (CellsWith(board, 0) = {} /\ ~Line(board, Last.turn + 1)) =>
              title.kind = "draw"

C9_Witness ==
    /\ game = "connect4" /\ title.kind = "draw" /\ CellsWith(board, 0) = {}

(***************************************************************************)
(* C10: the user declared winner is the one whose move was applied last,   *)
(* was players[turn] for that move, and holds a line of the own piece      *)
(* turn + 1.                                                               *)
(***************************************************************************)
C10_WinnerIsMover ==
    title.kind = "wins" =>
        /\ game_over /\ Len(accepted) >= 1
        /\ title.user = Last.user
        /\ Last.turn = turn
        /\ Last.user = players[turn]
        /\ Line(board, turn + 1)

C10_Witness ==
    /\ title = [kind |-> "wins", user |-> "B"]
    /\ players[1] = "B" /\ turn = 1

AllButtons == IF game = "connect4" THEN 0..6 ELSE TicTacToeButtons

(***************************************************************************)
(* C11: a click by a user other than players[turn] is answered "Not your   *)
(* turn!" in every status of the session, also after the game has ended,   *)
(* and only players[turn] is ever told that the game has ended.            *)
(***************************************************************************)
C11_TurnCheckFirst ==
    [][game # "none" =>
        \A i \in Slots, u \in Users :
            ClickBy(i, u) =>
                /\ u # players[turn] => cb'[i].res = "notturn"
                /\ cb'[i].res = "ended" => u = players[turn]
      ]_vars

(***************************************************************************)
(* C11, amended: the game-over check comes first.  After the game has      *)
(* ended every click, of any user, is answered that the game has ended;    *)
(* "Not your turn!" is the answer to a user other than players[turn] only  *)
(* while the game is in progress.                                          *)
(***************************************************************************)
C11_GameOverCheckFirst ==
    [][game # "none" =>
        \A i \in Slots, u \in Users :
            ClickBy(i, u) =>
                /\ game_over => cb'[i].res = "ended"
                /\ (~game_over /\ u # players[turn]) => cb'[i].res = "notturn"
                /\ cb'[i].res = "notturn" => (~game_over /\ u # players[turn])
      ]_vars

C11_Witness ==
    /\ game_over /\ title.kind = "wins"
    /\ cb[1].res = "ended" /\ cb[2].res = "ended"

(***************************************************************************)
(* C12: once the view has timed out the session is abandoned: game_over    *)
(* holds and every button is disabled.                                     *)
(***************************************************************************)
C12_TimeoutAbandons ==
    (game # "none" /\ stopped) => (game_over /\ disabled = AllButtons)

(***************************************************************************)
(* C13: no timeout occurs in a session whose game has ended by a win or a  *)
(* draw.                                                                   *)
(***************************************************************************)
C13_NoTimeoutAfterEnd ==
    [][(game # "none" /\ game_over) => stopped' = stopped]_vars

(***************************************************************************)
(* C14: a command whose opponent is its author reports the self-challenge  *)
(* and creates no view; with another opponent it creates one view of two   *)
(* different players with an empty board, turn = 0 and game_over false.    *)
(***************************************************************************)
C14_SelfChallengeCreatesNothing ==
    /\ notice = "self" =>
          /\ game = "none" /\ board = <<>> /\ accepted = <<>>
          /\ ~stopped /\ ~ENABLED Timeout
    /\ game # "none" =>
          /\ notice = "game"
          /\ players[0] # players[1]
          /\ accepted = <<>> =>
                /\ CellsWith(board, 0) = Cells(board)
                /\ Cells(board) = IF game = "connect4" THEN (0..5) \X (0..6)
                                  ELSE (0..2) \X (0..2)
                /\ turn = 0 /\ ~game_over

C14_Witness == notice = "self" /\ game = "none"

(***************************************************************************)
(* C15: an accepted Connect4 drop writes the mover's piece into the empty  *)
(* cell of the column with the greatest row index and into no other cell;  *)
(* the drop is refused exactly when the column has no empty cell.          *)
(***************************************************************************)
C15_DropLandsOnBottom ==
    [][game = "connect4" =>
        \A i \in Slots, col \in 0..6 :
            (~game_over /\ cb[i].pc = "idle" /\ cb'[i].pc # "idle"
               /\ Connect4Button_callback(i, players[turn], col))
            => IF ColumnFull(board, col)
               THEN cb'[i].res = "full" /\ board' = board
               ELSE LET r == CHOOSE r \in 0..5 :
                                 /\ board[r][col] = 0
                                 /\ \A q \in (r + 1)..5 : board[q][col] # 0
                    IN  /\ cb'[i].res # "full"
                        /\ board' = [board EXCEPT ![r][col] = turn + 1]
      ]_vars

C15_Witness ==
    /\ game = "connect4" /\ cb[1].res = "turn"
    /\ board[5][4] = 1 /\ board[4][4] = 2 /\ board[3][4] = 0
    /\ Len(accepted) = 2

(***************************************************************************)
(* C16: a cell that holds a piece holds the same piece in every later      *)
(* state of the session.                                                   *)
(***************************************************************************)
C16_CellsNeverRevert ==
    [][game # "none" =>
        \A rc \in Cells(board) :
            board[rc[1]][rc[2]] # 0 => board'[rc[1]][rc[2]] = board[rc[1]][rc[2]]
      ]_vars

C16_Witness ==
    /\ game = "tictactoe" /\ Len(accepted) >= 2 /\ ~game_over
    /\ cb[1].res = "taken" /\ cb[2].res = "turn"

(***************************************************************************)
(* C17: once game_over holds it holds for ever, and the outcome shown (a   *)
(* win of one user, or a draw) is not changed by any click or timeout.     *)
(***************************************************************************)
C17_TerminalIsAbsorbing ==
    [][(game # "none" /\ game_over) => (game_over' /\ title' = title)]_vars

C17_Witness ==
    /\ game_over /\ stopped /\ title.kind = "wins"
    /\ \E i \in Slots : cb[i].res = "ended"

(***************************************************************************)
(* C18: whenever the session is in a terminal status (won, drawn, or       *)
(* abandoned by timeout) every button of the view is disabled.             *)
(***************************************************************************)
C18_TerminalDisablesButtons ==
    (game # "none" /\ (game_over \/ stopped)) => disabled = AllButtons

(***************************************************************************)
(* C19: game_over holds exactly when a player has a line or the board has  *)
(* no empty cell; the two players never both have a line.                  *)
(***************************************************************************)
C19_GameOverIffLineOrFull ==
    game # "none" =>
        /\ game_over <=> (Line(board, 1) \/ Line(board, 2) \/ CellsWith(board, 0) = {})
        /\ ~(Line(board, 1) /\ Line(board, 2))

C19_Witness ==
    /\ game = "connect4" /\ game_over
    /\ Line(board, 2) /\ ~Line(board, 1) /\ CellsWith(board, 0) # {}

(***************************************************************************)
(* C20: there are as many cells of piece 1 as of piece 2, or one more;     *)
(* while the game is in progress, as many when turn = 0 and one more when  *)
(* turn = 1.                                                               *)
(***************************************************************************)
C20_PieceCountsFollowTurn ==
    game # "none" =>
        LET diff == Cardinality(CellsWith(board, 1)) - Cardinality(CellsWith(board, 2)) IN
        /\ diff \in {0, 1}
        /\ ~game_over => (diff = 0 <=> turn = 0) /\ (diff = 1 <=> turn = 1)

C20_Witness ==
    /\ game # "none" /\ ~game_over /\ turn = 1
    /\ Cardinality(CellsWith(board, 1)) = 3 /\ Cardinality(CellsWith(board, 2)) = 2

(***************************************************************************)
(* C21: a Connect4 board has no floating piece: below a non-empty cell     *)
(* (greater row index, same column) every cell is non-empty.               *)
(***************************************************************************)
C21_NoFloatingPiece ==
    game = "connect4" =>
        \A col \in 0..6, r \in 0..5 :
            board[r][col] # 0 => \A below \in (r + 1)..5 : board[below][col] # 0

C21_Witness ==
    /\ game = "connect4"
    /\ board[5][3] # 0 /\ board[4][3] # 0 /\ board[3][3] = 0
    /\ board[5][4] # 0 /\ board[4][4] = 0

(***************************************************************************)
(* C22 as stated: the expected number is at least 1; an integer message is *)
(* accepted only when it equals the expected number and its author is not  *)
(* the author of the previously accepted count, and then the expected      *)
(* number grows by 1; any other integer message resets the expected number *)
(* to 1 and clears the last counter; a non-integer message changes         *)
(* nothing.                                                                *)
(***************************************************************************)
\* slot i handles a message of the counting channel in this step
Counts(i) == task[i].pc = "idle" /\ task'[i].pc = "reacting"

\* the rule of the channel, where previous is the user who may not count next
CountingRule(i, previous) ==
    LET m == task'[i]
        g == m.guild_id
        expected == Get(count_state, g, 1)
        accepted_now == m.ok /\ m.num = expected /\ m.author # previous IN
    /\ expected >= 1 /\ Get(count_state', g, 1) >= 1
    /\ m.reaction = "check" <=> accepted_now
    /\ m.reaction = "cross" <=> (m.ok /\ ~accepted_now)
    /\ m.reaction = "delete" <=> ~m.ok
    /\ m.reaction = "check" =>
          /\ count_state'[g] = expected + 1
          /\ last_counter_user'[g] = m.author
    /\ m.reaction = "cross" =>
          /\ count_state'[g] = 1
          /\ last_counter_user'[g] = Nobody
    /\ m.reaction = "delete" =>
          /\ count_state' = count_state
          /\ last_counter_user' = last_counter_user
    /\ \A h \in Guilds \ {g} :
          /\ Get(count_state', h, 1) = Get(count_state, h, 1)
          /\ Get(last_counter_user', h, Nobody) = Get(last_counter_user, h, Nobody)

C23_BalanceNeverNegative ==
    \A u \in DOMAIN economy : economy[u].balance >= 0

(***************************************************************************)
(* C24: the reward of a completed mission is credited at most once: when   *)
(* no claim command is in flight, the coins claim has added are the sum of *)
(* the rewards of the missions it removed.                                 *)
(***************************************************************************)
C24_RewardCreditedOnce ==
    (\A i \in Slots : task[i].pc \notin {"pay", "remove"}) => audit.paid = audit.removed

(***************************************************************************)
(* C26: when ensure_mission completes the user has at least one mission    *)
(* and at most two, and the call added no more missions than were missing  *)
(* to two; a mission code is a key of the table, so it is held once.       *)
(***************************************************************************)
MissionCount(m) == Cardinality(MissionsOf(m, UserId))

C26_EnsureMissionUpToTwo ==
    [][\A i \in Slots :
          (task[i].pc = "commit" /\ task'[i].pc = "send") =>
              /\ MissionCount(missions') >= 1
              /\ MissionCount(missions') <= 2
              /\ MissionCount(missions') - MissionCount(missions)
                     <= Max(0, 2 - MissionCount(missions))]_vars

(***************************************************************************)
(* C25: for every interleaving of add_xp calls of the user, the stored     *)
(* level never decreases and the stored xp satisfies 0 <= xp < level * 100 *)
(* after each call.                                                        *)
(***************************************************************************)
C25_LevelNeverDecreases ==
    [][\A u \in DOMAIN economy :
          /\ economy'[u].level >= economy[u].level
          /\ 0 <= economy'[u].xp
          /\ economy'[u].xp < economy'[u].level * 100]_vars

====
